---- MODULE Spec2Model ----
(***************************************************************************)
(* The contact book service: signup, email confirmation, login,            *)
(* refresh-token rotation, the per-request auth gate with its user cache,  *)
(* the avatar update, and the contacts endpoints behind the gate.          *)
(*                                                                         *)
(* A JWT is modelled by what jose's encode/decode do with it: the claims   *)
(* (time claims truncated to whole seconds) together with the key that     *)
(* signed them.  Two tokens are the same string exactly when claims and    *)
(* key are the same.                                                       *)
(***************************************************************************)
EXTENDS Integers, FiniteSets, Sequences, TLC

VARIABLES
    users,    \* the users table: a set of rows
    cache,    \* the Redis user cache: key -> entry or None
    now,      \* the clock, in whole seconds (UTC)
    ticks,    \* how many times the clock has been advanced
    issued,   \* every token handed out so far, in a response or by mail
    resp,     \* the response to the last request handled
    spent,    \* history (SpecHistory only): tokens that succeeded at Refresh
    reqs,     \* requests in flight, handled step by step (concurrent runs)
    contacts  \* the contacts table: its rows and its id sequence

vars == <<users, cache, now, ticks, issued, resp, spent, reqs, contacts>>

---------------------------------------------------------------------------
(* Bounds of the model                                                     *)

MaxTicks == 1

---------------------------------------------------------------------------
(* Input domains                                                           *)

Emails == {"a@x.com", "b@x.com"}

\* The addresses that sign up; the others stay unknown to the service.
SignupEmails == {"a@x.com"}

Usernames == {"bob"}

\* A password is the sequence of its characters.
Pw == <<"p", "w">>

OtherPw == <<"o", "t", "h", "e", "r">>

Passwords == {Pw, OtherPw}

SignupPasswords == {Pw}

Salts == {"s1", "s2"}

SignupSalts == {"s1"}

\* An avatar reference is a URL, wrapped so that it compares with None.
Url(s) == [url |-> s]

GravatarUrl == Url("gravatar")

UploadedUrls == {Url("cld_v1")}

None == [none |-> TRUE]

---------------------------------------------------------------------------
(* Program constants                                                       *)

SECRET_KEY == "SECRET_KEY_JWT"

ForgedKey == "not_the_secret"

AccessTTL == 15 * 60

RefreshTTL == 7 * 24 * 60 * 60

EmailTTL == 24 * 60 * 60

\* Clock steps: into the next second, onto and past the expiry of an access
\* token, and past the expiry of every token.
Jumps == {1, AccessTTL, AccessTTL + 1, RefreshTTL + 1}

---------------------------------------------------------------------------
(* Credential hasher: passlib bcrypt context.  A hash carries its salt and *)
(* the digest of salt and password; verify recomputes the digest.  bcrypt  *)
(* reads the first 72 bytes of a password and passlib passes longer ones   *)
(* on without an error.                                                    *)

BcryptMaxBytes == 72

Truncated(password) ==
    SubSeq(password, 1,
           IF Len(password) < BcryptMaxBytes THEN Len(password)
           ELSE BcryptMaxBytes)

Digest(salt, password) == <<salt, Truncated(password)>>

get_password_hash(password, salt) ==
    [salt |-> salt, digest |-> Digest(salt, password)]

verify_password(plain_password, hashed_password) ==
    hashed_password.digest = Digest(hashed_password.salt, plain_password)

---------------------------------------------------------------------------
(* Token codec                                                             *)

jwt_encode(claims, key) == [claims |-> claims, key |-> key]

JWTError == [ok |-> FALSE, error |-> "JWTError"]

\* Mutant of jwt_decode: the expiry is not looked at.
jwt_decode_ignoring_exp(token, key, t) ==
    IF token.key # key THEN JWTError
    ELSE [ok |-> TRUE, payload |-> token.claims]

\* jose jwt.decode: signature first, then exp against the clock (a token is
\* expired when exp < now).
jwt_decode(token, key, t) ==
    IF token.key # key THEN JWTError
    ELSE IF "exp" \in DOMAIN token.claims /\ token.claims.exp < t THEN JWTError
    ELSE [ok |-> TRUE, payload |-> token.claims]

\* Optional[float]: <<>> is None, <<d>> is the number d.
NoDelta == <<>>

\* Python truth of an Optional[float]: neither None nor 0.
Truthy(expires_delta) == Len(expires_delta) = 1 /\ expires_delta[1] # 0

\* t_exp and t_iat are the two clock reads of the function, in that order.
create_access_token(data, expires_delta, t_exp, t_iat) ==
    LET expire == IF Truthy(expires_delta)
                  THEN t_exp + expires_delta[1]
                  ELSE t_exp + AccessTTL
    IN jwt_encode([sub |-> data.sub, iat |-> t_iat, exp |-> expire,
                   scope |-> "access_token"], SECRET_KEY)

create_refresh_token(data, expires_delta, t_exp, t_iat) ==
    LET expire == IF Truthy(expires_delta)
                  THEN t_exp + expires_delta[1]
                  ELSE t_exp + RefreshTTL
    IN jwt_encode([sub |-> data.sub, iat |-> t_iat, exp |-> expire,
                   scope |-> "refresh_token"], SECRET_KEY)

\* No scope claim is written.
create_email_token(data, t_exp, t_iat) ==
    jwt_encode([sub |-> data.sub, iat |-> t_iat, exp |-> t_exp + EmailTTL],
               SECRET_KEY)

Unauthorized(detail) == [ok |-> FALSE, status |-> 401, detail |-> detail]

\* An exception no handler catches: the framework answers 500.
ServerError(exc) == [ok |-> FALSE, status |-> 500, detail |-> exc]

\* Mutant of decode_refresh_token: any scope is taken for a refresh token.
decode_refresh_token_any_scope(token, t) ==
    LET d == jwt_decode(token, SECRET_KEY, t) IN
    IF ~d.ok THEN Unauthorized("Could not validate credentials")
    ELSE IF "scope" \notin DOMAIN d.payload THEN ServerError("KeyError")
    ELSE [ok |-> TRUE, email |-> d.payload.sub]

decode_refresh_token(token, t) ==
    LET d == jwt_decode(token, SECRET_KEY, t) IN
    IF ~d.ok THEN Unauthorized("Could not validate credentials")
    ELSE IF "scope" \notin DOMAIN d.payload THEN ServerError("KeyError")
    ELSE IF d.payload.scope = "refresh_token"
         THEN [ok |-> TRUE, email |-> d.payload.sub]
         ELSE Unauthorized("Invalid scope for token")

\* Mutant of get_email_from_token: a token that carries a scope claim is
\* not taken for an email token.
get_email_from_token_scope_checked(token, t) ==
    LET d == jwt_decode(token, SECRET_KEY, t) IN
    IF ~d.ok \/ "scope" \in DOMAIN d.payload
    THEN [ok |-> FALSE, status |-> 422,
          detail |-> "Invalid token for email verification"]
    ELSE [ok |-> TRUE, email |-> d.payload.sub]

get_email_from_token(token, t) ==
    LET d == jwt_decode(token, SECRET_KEY, t) IN
    IF ~d.ok
    THEN [ok |-> FALSE, status |-> 422,
          detail |-> "Invalid token for email verification"]
    ELSE [ok |-> TRUE, email |-> d.payload.sub]

---------------------------------------------------------------------------
(* Persistent store: the users table is a set of rows.                     *)

\* The User entity: a new row is unconfirmed and holds no refresh token.
User(id, username, email, password, avatar) ==
    [id |-> id, username |-> username, email |-> email, password |-> password,
     confirmed |-> FALSE, refresh_token |-> None, avatar |-> avatar]

MultipleResultsFound == [multiple |-> TRUE]

\* select(User).filter_by(email=email), scalar_one_or_none()
get_user_by_email(rows, email) ==
    LET found == {r \in rows : r.email = email} IN
    IF found = {} THEN None
    ELSE IF Cardinality(found) = 1 THEN CHOOSE r \in found : TRUE
    ELSE MultipleResultsFound

NextId(rows) == Cardinality(rows) + 1

\* The unique constraint of the email column: the natural key of a user.
email_is_unique(rows, email) == \A r \in rows : r.email # email

\* db.add, commit, refresh: the row as stored.  The commit of a row whose
\* email is taken raises IntegrityError and stores nothing.
create_user(rows, body, avatar) ==
    LET new_user == User(NextId(rows), body.username, body.email,
                         body.password, avatar)
    IN IF email_is_unique(rows, body.email)
       THEN [ok |-> TRUE, rows |-> rows \cup {new_user}, user |-> new_user]
       ELSE [ok |-> FALSE, rows |-> rows, user |-> None]

\* Mutant of update_token: clearing the token is not written.
update_token_never_clears(rows, user, token) ==
    IF token = None \/ user.refresh_token = token THEN rows
    ELSE {IF r.id = user.id THEN [r EXCEPT !.refresh_token = token] ELSE r
            : r \in rows}

\* user.refresh_token = token; commit.  The session writes the attribute
\* only if it differs from the value it loaded: an UPDATE of that column of
\* the row with the user's primary key.
update_token(rows, user, token) ==
    IF user.refresh_token = token THEN rows
    ELSE {IF r.id = user.id THEN [r EXCEPT !.refresh_token = token] ELSE r
            : r \in rows}

\* Mutant of repo_confirmed_email: the flag is set but never committed.
repo_confirmed_email_not_committed(rows, email) == rows

\* The repository function: loads the row by email and sets confirmed.
repo_confirmed_email(rows, email) ==
    LET user == get_user_by_email(rows, email) IN
    {IF r.id = user.id THEN [r EXCEPT !.confirmed = TRUE] ELSE r : r \in rows}

update_avatar_url(rows, email, url) ==
    LET user == get_user_by_email(rows, email)
        updated == [user EXCEPT !.avatar = url]
    IN [rows |-> {IF r.id = user.id THEN updated ELSE r : r \in rows},
        user |-> updated]

\* The contacts table: the rows and the last value of the id sequence.
NoContacts == [rows |-> {}, last_id |-> 0]

\* The Contact entity: the fields of the body, the owner, not completed.
Contact(id, body, user) ==
    [id |-> id, first_name |-> body.first_name, last_name |-> body.last_name,
     email |-> body.email, phone_number |-> body.phone_number,
     birthday |-> body.birthday, additional_data |-> body.additional_data,
     completed |-> FALSE, user_id |-> user.id]

\* The position of a row in the order of the ids.
Rank(table, row) == Cardinality({r \in table.rows : r.id <= row.id})

\* select(Contact).offset(offset).limit(limit): no filter on the owner.
repo_read_contacts(table, limit, offset) ==
    {r \in table.rows :
        Rank(table, r) > offset /\ Rank(table, r) <= offset + limit}

\* Mutant of repo_read_contact: the select filters on the id only.
repo_read_contact_any_owner(table, contact_id, user) ==
    LET found == {r \in table.rows : r.id = contact_id}
    IN IF found = {} THEN None ELSE CHOOSE r \in found : TRUE

\* select(Contact).filter_by(id=contact_id, user=user), scalar_one_or_none()
repo_read_contact(table, contact_id, user) ==
    LET found == {r \in table.rows :
                     r.id = contact_id /\ r.user_id = user.id}
    IN IF found = {} THEN None ELSE CHOOSE r \in found : TRUE

\* Mutant of repo_create_contact: the row is added without its owner.
repo_create_contact_unowned(table, body, user) ==
    LET stmt == [Contact(table.last_id + 1, body, user) EXCEPT !.user_id = 0]
    IN [table |-> [rows |-> table.rows \cup {stmt},
                   last_id |-> table.last_id + 1],
        contact |-> stmt]

repo_create_contact(table, body, user) ==
    LET stmt == Contact(table.last_id + 1, body, user)
    IN [table |-> [rows |-> table.rows \cup {stmt},
                   last_id |-> table.last_id + 1],
        contact |-> stmt]

\* Mutant of repo_update_contact: the whole body is copied to the row.
repo_update_contact_whole_body(table, contact_id, body, user) ==
    LET contact == repo_read_contact(table, contact_id, user) IN
    IF contact = None THEN [table |-> table, contact |-> None]
    ELSE LET updated == [contact EXCEPT
                           !.first_name = body.first_name,
                           !.last_name = body.last_name,
                           !.email = body.email,
                           !.phone_number = body.phone_number,
                           !.birthday = body.birthday,
                           !.additional_data = body.additional_data,
                           !.completed = body.completed]
         IN [table |-> [table EXCEPT
                          !.rows = (@ \ {contact}) \cup {updated}],
             contact |-> updated]

repo_update_contact(table, contact_id, body, user) ==
    LET contact == repo_read_contact(table, contact_id, user) IN
    IF contact = None THEN [table |-> table, contact |-> None]
    ELSE LET updated == [contact EXCEPT
                           !.first_name = body.first_name,
                           !.last_name = body.last_name,
                           !.email = body.email,
                           !.phone_number = body.phone_number,
                           !.birthday = body.birthday,
                           !.completed = body.completed]
         IN [table |-> [table EXCEPT
                          !.rows = (@ \ {contact}) \cup {updated}],
             contact |-> updated]

\* Mutant of repo_delete_contact: the contact is returned, the delete is
\* not committed.
repo_delete_contact_not_committed(table, contact_id, user) ==
    LET contact == repo_read_contact(table, contact_id, user) IN
    [table |-> table, contact |-> contact]

repo_delete_contact(table, contact_id, user) ==
    LET contact == repo_read_contact(table, contact_id, user) IN
    IF contact = None THEN [table |-> table, contact |-> None]
    ELSE [table |-> [table EXCEPT !.rows = @ \ {contact}],
          contact |-> contact]

---------------------------------------------------------------------------
(* User cache (Redis): key -> pickled user snapshot, with an expiry.       *)

CacheTTL == 30 * 60

AvatarCacheTTL == 300

\* What Redis reports as the time to live of a key that has none.
NoExpiry == -1

\* cache.set(key, pickle.dumps(user)) with no ex/px argument: the value is
\* replaced and the key has no time to live, whatever it had before.
cache_put(c, key, user, t) ==
    [c EXCEPT ![key] = [user |-> user, written |-> t, expires |-> NoExpiry]]

\* cache.expire(key, ttl): the key, if there, gets a time to live.
cache_expire(c, key, ttl, t) ==
    IF c[key] = None THEN c ELSE [c EXCEPT ![key].expires = t + ttl]

\* The two calls one after the other, as the handlers make them.
cache_set(c, key, user, ttl, t) ==
    cache_expire(cache_put(c, key, user, t), key, ttl, t)

\* The cache store when it cannot be reached: every call on it raises.
CacheDown == [unreachable |-> TRUE]

\* Redis drops a key once its time to live has passed.
cache_expired(c, t) ==
    IF c = CacheDown THEN c
    ELSE [k \in DOMAIN c |->
            IF c[k] # None /\ c[k].expires # NoExpiry /\ c[k].expires <= t
            THEN None ELSE c[k]]

---------------------------------------------------------------------------
(* Auth gate                                                               *)

credentials_exception == Unauthorized("Could not validate credentials")

\* The bearer scheme and the decode: the subject, or the rejection.  A
\* request without a token is answered by the scheme itself.
gate_decode(token, t) ==
    IF token = None THEN Unauthorized("Not authenticated")
    ELSE LET d == jwt_decode(token, SECRET_KEY, t) IN
         IF ~d.ok THEN credentials_exception
         ELSE IF "scope" \notin DOMAIN d.payload THEN ServerError("KeyError")
         ELSE IF d.payload.scope # "access_token" THEN credentials_exception
         ELSE [ok |-> TRUE, email |-> d.payload.sub]

\* Mutant of get_current_user: a miss is resolved but not written back.
get_current_user_skips_cache_write(token, rows, c, t) ==
    LET s == gate_decode(token, t) IN
    IF ~s.ok THEN [res |-> s, cache |-> c]
    ELSE IF c = CacheDown
    THEN [res |-> ServerError("ConnectionError"), cache |-> c]
    ELSE IF c[s.email] = None
         THEN LET user == get_user_by_email(rows, s.email) IN
              IF user = None
              THEN [res |-> credentials_exception, cache |-> c]
              ELSE [res |-> [ok |-> TRUE, user |-> user, hit |-> FALSE],
                    cache |-> c]
         ELSE [res |-> [ok |-> TRUE, user |-> c[s.email].user, hit |-> TRUE],
               cache |-> c]

\* Mutant of get_current_user: a hit writes the entry again.
get_current_user_rewrites_on_hit(token, rows, c, t) ==
    LET s == gate_decode(token, t) IN
    IF ~s.ok THEN [res |-> s, cache |-> c]
    ELSE IF c = CacheDown
    THEN [res |-> ServerError("ConnectionError"), cache |-> c]
    ELSE IF c[s.email] = None
         THEN LET user == get_user_by_email(rows, s.email) IN
              IF user = None
              THEN [res |-> credentials_exception, cache |-> c]
              ELSE [res |-> [ok |-> TRUE, user |-> user, hit |-> FALSE],
                    cache |-> cache_set(c, s.email, user, CacheTTL, t)]
         ELSE [res |-> [ok |-> TRUE, user |-> c[s.email].user, hit |-> TRUE],
               cache |-> cache_set(c, s.email, c[s.email].user, CacheTTL, t)]

\* Mutant of get_current_user: a user without a stored refresh token is
\* taken for logged out.
get_current_user_needs_session(token, rows, c, t) ==
    LET s == gate_decode(token, t) IN
    IF ~s.ok THEN [res |-> s, cache |-> c]
    ELSE IF c = CacheDown
    THEN [res |-> ServerError("ConnectionError"), cache |-> c]
    ELSE LET user == get_user_by_email(rows, s.email) IN
         IF user = None \/ user.refresh_token = None
         THEN [res |-> credentials_exception, cache |-> c]
         ELSE IF c[s.email] = None
         THEN [res |-> [ok |-> TRUE, user |-> user, hit |-> FALSE],
               cache |-> cache_set(c, s.email, user, CacheTTL, t)]
         ELSE [res |-> [ok |-> TRUE, user |-> c[s.email].user, hit |-> TRUE],
               cache |-> c]

\* Result: ok with the user, or the rejection; cache is the cache afterwards.
\* The cache calls are not guarded: an unreachable cache raises out of the
\* gate.
get_current_user(token, rows, c, t) ==
    LET s == gate_decode(token, t) IN
    IF ~s.ok THEN [res |-> s, cache |-> c]
    ELSE IF c = CacheDown
    THEN [res |-> ServerError("ConnectionError"), cache |-> c]
    ELSE IF c[s.email] = None
         THEN LET user == get_user_by_email(rows, s.email) IN
              IF user = None
              THEN [res |-> credentials_exception, cache |-> c]
              ELSE [res |-> [ok |-> TRUE, user |-> user, hit |-> FALSE],
                    cache |-> cache_set(c, s.email, user, CacheTTL, t)]
         ELSE [res |-> [ok |-> TRUE, user |-> c[s.email].user, hit |-> TRUE],
               cache |-> c]

---------------------------------------------------------------------------
(* Route handlers.  Each returns the table and cache after the request,    *)
(* the tokens it hands out (in the response or by mail) and the response.  *)

Response(op, status, detail, email, token, access, refresh, user) ==
    [op |-> op, status |-> status, detail |-> detail, email |-> email,
     token |-> token, access_token |-> access, refresh_token |-> refresh,
     user |-> user]

\* The confirmation mail: carries an email token for the address.
send_email(email, t_local) ==
    create_email_token([sub |-> email], t_local, t_local)

\* UserResponse declares avatar: str; a row without avatar fails the
\* response validation after the handler has run.
UserResponseStatus(user, status) == IF user.avatar = None THEN 500 ELSE status

\* The existence check, up to the first suspension point.
signup_check(rows, body) == get_user_by_email(rows, body.email)

SignupConflict(rows, body) ==
    [rows |-> rows, out |-> {},
     resp |-> Response("signup", 409, "Account already exists",
                       body.email, None, None, None, None)]

\* After the check has found nobody: hash, insert, mail.  rows is the table
\* at the time of the insert.
signup_insert(rows, body, salt, avatar, t, t_local) ==
    LET hashed == [body EXCEPT
                     !.password = get_password_hash(body.password, salt)]
        made == create_user(rows, hashed, avatar)
    IN IF ~made.ok
       THEN [rows |-> rows, out |-> {},
             resp |-> Response("signup", 500, "IntegrityError", body.email,
                               None, None, None, None)]
       ELSE [rows |-> made.rows,
             out |-> {send_email(made.user.email, t_local)},
             resp |-> Response("signup", UserResponseStatus(made.user, 201),
                               "created", body.email, None, None, None,
                               made.user)]

\* The handler run without interruption.
signup(rows, body, salt, avatar, t, t_local) ==
    IF signup_check(rows, body) # None THEN SignupConflict(rows, body)
    ELSE signup_insert(rows, body, salt, avatar, t, t_local)

\* Mutant of login: the password is verified before the confirmation flag.
login_password_first(rows, username, password, t) ==
    LET user == get_user_by_email(rows, username)
        Fail(detail) ==
            [rows |-> rows, out |-> {},
             resp |-> Response("login", 401, detail, username, None, None,
                               None, None)]
    IN
    IF user = None THEN Fail("Invalid email")
    ELSE IF ~verify_password(password, user.password)
    THEN Fail("Invalid password")
    ELSE IF ~user.confirmed THEN Fail("Email not confirmed")
    ELSE LET access == create_access_token([sub |-> user.email], NoDelta, t, t)
             refresh == create_refresh_token([sub |-> user.email], NoDelta, t, t)
         IN [rows |-> update_token(rows, user, refresh),
             out |-> {access, refresh},
             resp |-> Response("login", 200, "bearer", username, None,
                               access, refresh, None)]

\* Mutant of login: the confirmation flag is not looked at.
login_skips_confirmation(rows, username, password, t) ==
    LET user == get_user_by_email(rows, username)
        Fail(detail) ==
            [rows |-> rows, out |-> {},
             resp |-> Response("login", 401, detail, username, None, None,
                               None, None)]
    IN
    IF user = None THEN Fail("Invalid email")
    ELSE IF ~verify_password(password, user.password)
    THEN Fail("Invalid password")
    ELSE LET access == create_access_token([sub |-> user.email], NoDelta, t, t)
             refresh == create_refresh_token([sub |-> user.email], NoDelta, t, t)
         IN [rows |-> update_token(rows, user, refresh),
             out |-> {access, refresh},
             resp |-> Response("login", 200, "bearer", username, None,
                               access, refresh, None)]

\* Mutant of login: the new refresh token is returned but not stored.
login_without_store(rows, username, password, t) ==
    LET user == get_user_by_email(rows, username)
        Fail(detail) ==
            [rows |-> rows, out |-> {},
             resp |-> Response("login", 401, detail, username, None, None,
                               None, None)]
    IN
    IF user = None THEN Fail("Invalid email")
    ELSE IF ~user.confirmed THEN Fail("Email not confirmed")
    ELSE IF ~verify_password(password, user.password)
    THEN Fail("Invalid password")
    ELSE LET access == create_access_token([sub |-> user.email], NoDelta, t, t)
             refresh == create_refresh_token([sub |-> user.email], NoDelta, t, t)
         IN [rows |-> rows,
             out |-> {access, refresh},
             resp |-> Response("login", 200, "bearer", username, None,
                               access, refresh, None)]

login(rows, username, password, t) ==
    LET user == get_user_by_email(rows, username)
        Fail(detail) ==
            [rows |-> rows, out |-> {},
             resp |-> Response("login", 401, detail, username, None, None,
                               None, None)]
    IN
    IF user = None THEN Fail("Invalid email")
    ELSE IF ~user.confirmed THEN Fail("Email not confirmed")
    ELSE IF ~verify_password(password, user.password)
    THEN Fail("Invalid password")
    ELSE LET access == create_access_token([sub |-> user.email], NoDelta, t, t)
             refresh == create_refresh_token([sub |-> user.email], NoDelta, t, t)
         IN [rows |-> update_token(rows, user, refresh),
             out |-> {access, refresh},
             resp |-> Response("login", 200, "bearer", username, None,
                               access, refresh, None)]

RefreshFail(rows, token, status, detail, email) ==
    [rows |-> rows, out |-> {},
     resp |-> Response("refresh", status, detail, email, token, None, None,
                       None)]

\* Up to the first suspension point: decode, then load the user.
refresh_read(rows, token, t) ==
    LET d == decode_refresh_token(token, t) IN
    IF ~d.ok THEN d
    ELSE [ok |-> TRUE, email |-> d.email,
          user |-> get_user_by_email(rows, d.email)]

\* From the loaded user on: compare, issue, write.  rows is the table at the
\* time of the write, user the row as it was loaded.
refresh_write(rows, user, email, token, t) ==
    IF user = None THEN RefreshFail(rows, token, 500, "AttributeError", email)
    ELSE IF user.refresh_token # token
    THEN RefreshFail(update_token(rows, user, None), token, 401,
                     "Invalid refresh token", email)
    ELSE LET access == create_access_token([sub |-> email], NoDelta, t, t)
             refresh == create_refresh_token([sub |-> email], NoDelta, t, t)
         IN [rows |-> update_token(rows, user, refresh),
             out |-> {access, refresh},
             resp |-> Response("refresh", 200, "bearer", email, token,
                               access, refresh, None)]

\* The handler run without interruption.
refresh_token(rows, token, t) ==
    LET rd == refresh_read(rows, token, t) IN
    IF ~rd.ok THEN RefreshFail(rows, token, rd.status, rd.detail, "")
    ELSE refresh_write(rows, rd.user, rd.email, token, t)

\* Mutant of confirmed_email: a repeated confirmation is refused.
confirmed_email_rejects_repeat(rows, token, t) ==
    LET d == get_email_from_token(token, t)
        Done(r, status, detail, email) ==
            [rows |-> r, out |-> {},
             resp |-> Response("confirm", status, detail, email, token, None,
                               None, None)]
    IN
    IF ~d.ok THEN Done(rows, d.status, d.detail, "")
    ELSE LET user == get_user_by_email(rows, d.email) IN
         IF user = None THEN Done(rows, 400, "Verification error", d.email)
         ELSE IF user.confirmed
         THEN Done(rows, 409, "Your email is already confirmed", d.email)
         ELSE Done(repo_confirmed_email(rows, d.email), 200,
                   "Email confirmed", d.email)

confirmed_email(rows, token, t) ==
    LET d == get_email_from_token(token, t)
        Done(r, status, detail, email) ==
            [rows |-> r, out |-> {},
             resp |-> Response("confirm", status, detail, email, token, None,
                               None, None)]
    IN
    IF ~d.ok THEN Done(rows, d.status, d.detail, "")
    ELSE LET user == get_user_by_email(rows, d.email) IN
         IF user = None THEN Done(rows, 400, "Verification error", d.email)
         ELSE IF user.confirmed
         THEN Done(rows, 200, "Your email is already confirmed", d.email)
         ELSE Done(repo_confirmed_email(rows, d.email), 200,
                   "Email confirmed", d.email)

\* POST /auth/request_email: user.confirmed is read before the row is
\* tested for None, so an unknown address raises AttributeError.
request_email(rows, email, t) ==
    LET user == get_user_by_email(rows, email)
        Done(out, status, detail) ==
            [rows |-> rows, out |-> out,
             resp |-> Response("request_email", status, detail, email, None,
                               None, None, None)]
    IN
    IF user = None
    THEN Done({}, ServerError("AttributeError").status,
              ServerError("AttributeError").detail)
    ELSE IF user.confirmed
    THEN Done({}, 200, "Your email is already confirmed")
    ELSE Done({send_email(user.email, t)}, 200,
              "Check your email for confirmation.")

\* GET /users/me: the gate, then the user as the response.
read_me(rows, c, token, t) ==
    LET g == get_current_user(token, rows, c, t) IN
    IF ~g.res.ok
    THEN [rows |-> rows, cache |-> g.cache,
          resp |-> Response("me", g.res.status, g.res.detail, "", token,
                            None, None, None)]
    ELSE [rows |-> rows, cache |-> g.cache,
          resp |-> Response("me", UserResponseStatus(g.res.user, 200),
                            IF g.res.hit THEN "hit" ELSE "miss",
                            g.res.user.email, token, None, None, g.res.user)]

\* PATCH /users/avatar: the gate, the upload, the row update, the cache write.
update_user_avatar(rows, c, token, res_url, t) ==
    LET g == get_current_user(token, rows, c, t) IN
    IF ~g.res.ok
    THEN [rows |-> rows, cache |-> g.cache,
          resp |-> Response("avatar", g.res.status, g.res.detail, "", token,
                            None, None, None)]
    ELSE LET up == update_avatar_url(rows, g.res.user.email, res_url) IN
         [rows |-> up.rows,
          cache |-> cache_set(g.cache, up.user.email, up.user,
                              AvatarCacheTTL, t),
          resp |-> Response("avatar", 200, "updated", up.user.email, token,
                            None, None, up.user)]

---------------------------------------------------------------------------
(* Contacts routes.  Each runs the gate first and returns the tables and   *)
(* the cache after the request, the response and the contacts in its body. *)

Handled(rows, table, c, answer, data) ==
    [rows |-> rows, contacts |-> table, cache |-> c, resp |-> answer,
     data |-> data]

\* The answer of a request the gate has rejected.
Rejected(op, rows, table, g, token) ==
    Handled(rows, table, g.cache,
            Response(op, g.res.status, g.res.detail, "", token, None, None,
                     None), {})

Answer(op, status, detail, g, token) ==
    Response(op, status, detail, g.res.user.email, token, None, None, None)

\* GET /contacts/: the route passes user=user to a repository function that
\* has no such parameter, which raises TypeError.
read_contacts(rows, table, c, token, limit, offset, t) ==
    LET g == get_current_user(token, rows, c, t) IN
    IF ~g.res.ok THEN Rejected("list", rows, table, g, token)
    ELSE Handled(rows, table, g.cache,
                 Answer("list", ServerError("TypeError").status, "TypeError",
                        g, token), {})

read_contact(rows, table, c, token, contact_id, t) ==
    LET g == get_current_user(token, rows, c, t) IN
    IF ~g.res.ok THEN Rejected("read", rows, table, g, token)
    ELSE LET contact == repo_read_contact(table, contact_id, g.res.user) IN
         IF contact = None
         THEN Handled(rows, table, g.cache,
                      Answer("read", 404, "Contact not found", g, token), {})
         ELSE Handled(rows, table, g.cache,
                      Answer("read", 200, "contact", g, token), {contact})

create_contact(rows, table, c, token, body, t) ==
    LET g == get_current_user(token, rows, c, t) IN
    IF ~g.res.ok THEN Rejected("create", rows, table, g, token)
    ELSE LET made == repo_create_contact(table, body, g.res.user) IN
         Handled(rows, made.table, g.cache,
                 Answer("create", 201, "created", g, token), {made.contact})

update_contact(rows, table, c, token, contact_id, body, t) ==
    LET g == get_current_user(token, rows, c, t) IN
    IF ~g.res.ok THEN Rejected("update", rows, table, g, token)
    ELSE LET up == repo_update_contact(table, contact_id, body, g.res.user)
         IN IF up.contact = None
            THEN Handled(rows, table, g.cache,
                         Answer("update", 404, "NOT FOUND", g, token), {})
            ELSE Handled(rows, up.table, g.cache,
                         Answer("update", 200, "updated", g, token),
                         {up.contact})

delete_contact(rows, table, c, token, contact_id, t) ==
    LET g == get_current_user(token, rows, c, t) IN
    IF ~g.res.ok THEN Rejected("delete", rows, table, g, token)
    ELSE LET del == repo_delete_contact(table, contact_id, g.res.user) IN
         Handled(rows, del.table, g.cache,
                 Answer("delete", 204, "deleted", g, token), {})

---------------------------------------------------------------------------
(* The state machine                                                       *)

\* What a client can present: a token it was handed, or the claims of one
\* signed with another key.
Forged(t) ==
    {jwt_encode(create_refresh_token([sub |-> e], NoDelta, t, t).claims,
                ForgedKey) : e \in SignupEmails}

Presentable == issued \cup Forged(now)

Init ==
    /\ users = {}
    /\ cache = [e \in Emails |-> None]
    /\ now = 0
    /\ ticks = 0
    /\ issued = {}
    /\ resp = Response("init", 0, "", "", None, None, None, None)
    /\ spent = [once |-> {}, more |-> {}]
    /\ reqs = <<>>
    /\ contacts = NoContacts

Tick(d) ==
    /\ ticks < MaxTicks
    /\ ticks' = ticks + 1
    /\ now' = now + d
    /\ cache' = cache_expired(cache, now + d)
    /\ resp' = Response("tick", 0, "", "", None, None, None, None)
    /\ UNCHANGED <<users, issued, spent, reqs, contacts>>

Signup(username, email, password, salt, avatar) ==
    LET r == signup(users, [username |-> username, email |-> email,
                            password |-> password], salt, avatar, now, now)
    IN /\ users' = r.rows
       /\ issued' = issued \cup r.out
       /\ resp' = r.resp
       /\ UNCHANGED <<cache, now, ticks, spent, reqs, contacts>>

Login(email, password) ==
    LET r == login(users, email, password, now)
    IN /\ users' = r.rows
       /\ issued' = issued \cup r.out
       /\ resp' = r.resp
       /\ UNCHANGED <<cache, now, ticks, spent, reqs, contacts>>

\* A token that succeeds moves to once, and on a later success to more.
Spend(sp, token) ==
    IF token \in sp.once \cup sp.more
    THEN [once |-> sp.once \ {token}, more |-> sp.more \cup {token}]
    ELSE [once |-> sp.once \cup {token}, more |-> sp.more]

RefreshStep(token, r) ==
    /\ users' = r.rows
    /\ issued' = issued \cup r.out
    /\ resp' = r.resp
    /\ UNCHANGED <<cache, now, ticks, reqs, contacts>>

Refresh(token) ==
    /\ RefreshStep(token, refresh_token(users, token, now))
    /\ UNCHANGED spent

\* The same request, with the history of successful tokens kept.
RefreshRecorded(token) ==
    LET r == refresh_token(users, token, now)
    IN /\ RefreshStep(token, r)
       /\ spent' = IF r.resp.status = 200 THEN Spend(spent, token) ELSE spent

ConfirmEmail(token) ==
    LET r == confirmed_email(users, token, now)
    IN /\ users' = r.rows
       /\ resp' = r.resp
       /\ UNCHANGED <<cache, now, ticks, issued, spent, reqs, contacts>>

ReadMe(token) ==
    LET r == read_me(users, cache, token, now)
    IN /\ cache' = r.cache
       /\ resp' = r.resp
       /\ UNCHANGED <<users, now, ticks, issued, spent, reqs, contacts>>

UpdateAvatar(token, url) ==
    LET r == update_user_avatar(users, cache, token, url, now)
    IN /\ users' = r.rows
       /\ cache' = r.cache
       /\ resp' = r.resp
       /\ UNCHANGED <<now, ticks, issued, spent, reqs, contacts>>

Next ==
    \/ \E d \in Jumps : Tick(d)
    \/ \E u \in Usernames, e \in SignupEmails, p \in SignupPasswords,
          s \in SignupSalts, a \in {GravatarUrl} : Signup(u, e, p, s, a)
    \/ \E e \in Emails, p \in Passwords : Login(e, p)
    \/ \E tok \in Presentable : Refresh(tok)
    \/ \E tok \in Presentable : ConfirmEmail(tok)
    \/ \E tok \in Presentable : ReadMe(tok)
    \/ \E tok \in Presentable, url \in UploadedUrls : UpdateAvatar(tok, url)

Spec == Init /\ [][Next]_vars

NextHistory ==
    \/ \E d \in Jumps : Tick(d)
    \/ \E u \in Usernames, e \in SignupEmails, p \in SignupPasswords,
          s \in SignupSalts, a \in {GravatarUrl} : Signup(u, e, p, s, a)
    \/ \E e \in Emails, p \in Passwords : Login(e, p)
    \/ \E tok \in Presentable : RefreshRecorded(tok)
    \/ \E tok \in Presentable : ConfirmEmail(tok)
    \/ \E tok \in Presentable : ReadMe(tok)
    \/ \E tok \in Presentable, url \in UploadedUrls : UpdateAvatar(tok, url)

SpecHistory == Init /\ [][NextHistory]_vars

---------------------------------------------------------------------------
(* Concurrent Refresh requests.  A request suspends at every store access:  *)
(* it decodes and loads the user, and later compares, issues and writes.    *)
(* Each request works on the row as its own session loaded it.              *)

Procs == {1, 2}

RaceEmail == "a@x.com"

\* The service after RaceEmail has signed up, confirmed and logged in.
SignedUp ==
    signup({}, [username |-> "bob", email |-> RaceEmail, password |-> Pw],
           "s1", GravatarUrl, 0, 0)

Confirmed ==
    confirmed_email(SignedUp.rows, send_email(RaceEmail, 0), 0)

LoggedIn == login(Confirmed.rows, RaceEmail, Pw, 0)

InFlight(token) ==
    [pc |-> "start", token |-> token, email |-> "", user |-> None,
     status |-> 0, refresh_token |-> None]

\* The requests arrive in the second of the login or in the next one.
RaceStarts == {0, 1}

\* Both requests present the refresh token the login stored.
InitRace ==
    /\ users = LoggedIn.rows
    /\ cache = [e \in Emails |-> None]
    /\ now \in RaceStarts
    /\ ticks = 0
    /\ issued = SignedUp.out \cup LoggedIn.out
    /\ resp = LoggedIn.resp
    /\ spent = [once |-> {}, more |-> {}]
    /\ reqs = [p \in Procs |-> InFlight(LoggedIn.resp.refresh_token)]
    /\ contacts = NoContacts

RaceRead(p) ==
    /\ reqs[p].pc = "start"
    /\ LET rd == refresh_read(users, reqs[p].token, now) IN
       reqs' = [reqs EXCEPT ![p] =
                  IF ~rd.ok
                  THEN [@ EXCEPT !.pc = "done", !.status = rd.status]
                  ELSE [@ EXCEPT !.pc = "loaded", !.email = rd.email,
                                 !.user = rd.user]]
    /\ UNCHANGED <<users, cache, now, ticks, issued, resp, spent, contacts>>

RaceWrite(p) ==
    /\ reqs[p].pc = "loaded"
    /\ LET r == refresh_write(users, reqs[p].user, reqs[p].email,
                              reqs[p].token, now)
       IN /\ users' = r.rows
          /\ issued' = issued \cup r.out
          /\ reqs' = [reqs EXCEPT ![p] =
                        [@ EXCEPT !.pc = "done", !.status = r.resp.status,
                                  !.refresh_token = r.resp.refresh_token]]
    /\ UNCHANGED <<cache, now, ticks, resp, spent, contacts>>

NextRace ==
    \/ \E p \in Procs : RaceRead(p)
    \/ \E p \in Procs : RaceWrite(p)
    \/ \E d \in Jumps : Tick(d)

SpecRace == InitRace /\ [][NextRace]_vars

---------------------------------------------------------------------------
(* Concurrent Signup requests.  A request suspends at the existence check   *)
(* and at the insert; nothing orders the check of one request and the       *)
(* insert of another.                                                       *)

RaceBodies == [username : Usernames, email : Emails, password : Passwords]

SignupInFlight(body) == [pc |-> "start", body |-> body, status |-> 0]

InitSignupRace ==
    /\ users = {}
    /\ cache = [e \in Emails |-> None]
    /\ now = 0
    /\ ticks = 0
    /\ issued = {}
    /\ resp = Response("init", 0, "", "", None, None, None, None)
    /\ spent = [once |-> {}, more |-> {}]
    /\ reqs \in [Procs -> {SignupInFlight(b) : b \in RaceBodies}]
    /\ contacts = NoContacts

SignupCheck(p) ==
    /\ reqs[p].pc = "start"
    /\ reqs' = [reqs EXCEPT ![p] =
                  IF signup_check(users, reqs[p].body) # None
                  THEN [@ EXCEPT !.pc = "done",
                          !.status =
                             SignupConflict(users, reqs[p].body).resp.status]
                  ELSE [@ EXCEPT !.pc = "checked"]]
    /\ UNCHANGED <<users, cache, now, ticks, issued, resp, spent, contacts>>

SignupInsert(p) ==
    /\ reqs[p].pc = "checked"
    /\ LET r == signup_insert(users, reqs[p].body, "s1", GravatarUrl, now, now)
       IN /\ users' = r.rows
          /\ issued' = issued \cup r.out
          /\ reqs' = [reqs EXCEPT ![p] =
                        [@ EXCEPT !.pc = "done", !.status = r.resp.status]]
    /\ UNCHANGED <<cache, now, ticks, resp, spent, contacts>>

NextSignupRace ==
    \/ \E p \in Procs : SignupCheck(p)
    \/ \E p \in Procs : SignupInsert(p)
    \/ \E d \in Jumps : Tick(d)

SpecSignupRace == InitSignupRace /\ [][NextSignupRace]_vars

---------------------------------------------------------------------------
(* The service with a cache store that can become unreachable and come     *)
(* back, empty, at any time.                                               *)

Outage ==
    /\ cache # CacheDown
    /\ cache' = CacheDown
    /\ UNCHANGED <<users, now, ticks, issued, resp, spent, reqs, contacts>>

Restore ==
    /\ cache = CacheDown
    /\ cache' = [e \in Emails |-> None]
    /\ UNCHANGED <<users, now, ticks, issued, resp, spent, reqs, contacts>>

NextOutage ==
    \/ Next
    \/ Outage
    \/ Restore

SpecOutage == Init /\ [][NextOutage]_vars

---------------------------------------------------------------------------
(* Concurrent requests through the gate.  The gate suspends at the table   *)
(* read of a cache miss; the avatar handler suspends at the row update.     *)
(* Cache calls are synchronous, but nothing orders them between requests.   *)

GateKinds == {"me", "avatar"}

GateInFlight(kind, token) ==
    [kind |-> kind, pc |-> "start", token |-> token, email |-> "",
     user |-> None, status |-> 0]

\* The position of a request the gate has authorized: GET /users/me returns
\* the user at once, PATCH /users/avatar goes on.
Authorized(req, user) ==
    IF req.kind = "me"
    THEN [req EXCEPT !.pc = "done", !.user = user,
                     !.status = UserResponseStatus(user, 200)]
    ELSE [req EXCEPT !.pc = "authorized", !.user = user]

InitAvatarRace ==
    /\ users = LoggedIn.rows
    /\ cache = [e \in Emails |-> None]
    /\ now \in RaceStarts
    /\ ticks = 0
    /\ issued = SignedUp.out \cup LoggedIn.out
    /\ resp = LoggedIn.resp
    /\ spent = [once |-> {}, more |-> {}]
    /\ reqs \in [Procs -> {GateInFlight(k, LoggedIn.resp.access_token) :
                              k \in GateKinds}]
    /\ contacts = NoContacts

\* Decode and cache get.
GateStart(p) ==
    /\ reqs[p].pc = "start"
    /\ LET s == gate_decode(reqs[p].token, now) IN
       reqs' = [reqs EXCEPT ![p] =
                  IF ~s.ok THEN [@ EXCEPT !.pc = "done", !.status = s.status]
                  ELSE IF cache[s.email] = None
                  THEN [@ EXCEPT !.pc = "reading", !.email = s.email]
                  ELSE Authorized([@ EXCEPT !.email = s.email],
                                  cache[s.email].user)]
    /\ UNCHANGED <<users, cache, now, ticks, issued, resp, spent, contacts>>

\* The table read of a miss.
GateRead(p) ==
    /\ reqs[p].pc = "reading"
    /\ LET user == get_user_by_email(users, reqs[p].email) IN
       reqs' = [reqs EXCEPT ![p] =
                  IF user = None
                  THEN [@ EXCEPT !.pc = "done",
                          !.status = credentials_exception.status]
                  ELSE [@ EXCEPT !.pc = "filling", !.user = user]]
    /\ UNCHANGED <<users, cache, now, ticks, issued, resp, spent, contacts>>

\* The cache write of a miss: the snapshot as it was read.
GateFill(p) ==
    /\ reqs[p].pc = "filling"
    /\ cache' = cache_set(cache, reqs[p].email, reqs[p].user, CacheTTL, now)
    /\ reqs' = [reqs EXCEPT ![p] = Authorized(@, reqs[p].user)]
    /\ UNCHANGED <<users, now, ticks, issued, resp, spent, contacts>>

\* The upload and the row update of the avatar handler.
AvatarStore(p, url) ==
    /\ reqs[p].pc = "authorized"
    /\ LET up == update_avatar_url(users, reqs[p].user.email, url) IN
       /\ users' = up.rows
       /\ reqs' = [reqs EXCEPT ![p] = [@ EXCEPT !.pc = "stored",
                                                !.user = up.user]]
    /\ UNCHANGED <<cache, now, ticks, issued, resp, spent, contacts>>

\* The cache write of the avatar handler.
AvatarCache(p) ==
    /\ reqs[p].pc = "stored"
    /\ cache' = cache_set(cache, reqs[p].user.email, reqs[p].user,
                          AvatarCacheTTL, now)
    /\ reqs' = [reqs EXCEPT ![p] = [@ EXCEPT !.pc = "done", !.status = 200]]
    /\ UNCHANGED <<users, now, ticks, issued, resp, spent, contacts>>

NextAvatarRace ==
    \/ \E p \in Procs : GateStart(p)
    \/ \E p \in Procs : GateRead(p)
    \/ \E p \in Procs : GateFill(p)
    \/ \E p \in Procs, url \in UploadedUrls : AvatarStore(p, url)
    \/ \E p \in Procs : AvatarCache(p)
    \/ \E d \in Jumps : Tick(d)

SpecAvatarRace == InitAvatarRace /\ [][NextAvatarRace]_vars

---------------------------------------------------------------------------
(* Email confirmation on its own: the token of the confirmation link is a  *)
(* path parameter, so the handler is given every kind of token the service *)
(* signs, for every address.                                                *)

SignedTokens(t) ==
    UNION {{create_access_token([sub |-> e], NoDelta, t, t),
            create_refresh_token([sub |-> e], NoDelta, t, t),
            create_email_token([sub |-> e], t, t)} : e \in Emails}

RequestEmail(email) ==
    LET r == request_email(users, email, now)
    IN /\ users' = r.rows
       /\ issued' = issued \cup r.out
       /\ resp' = r.resp
       /\ UNCHANGED <<cache, now, ticks, spent, reqs, contacts>>

NextConfirm ==
    \/ \E d \in Jumps : Tick(d)
    \/ \E u \in Usernames, e \in SignupEmails, p \in SignupPasswords,
          s \in SignupSalts, a \in {GravatarUrl} : Signup(u, e, p, s, a)
    \/ \E e \in Emails, p \in SignupPasswords : Login(e, p)
    \/ \E tok \in Presentable \cup SignedTokens(now) : ConfirmEmail(tok)
    \/ \E e \in Emails : RequestEmail(e)

SpecConfirm == Init /\ [][NextConfirm]_vars

---------------------------------------------------------------------------
(* The same requests with the two cache calls of a write taken apart: a     *)
(* request can end between its cache.set and its cache.expire (the expire   *)
(* call raises on a lost connection, or the worker is stopped).             *)

Expiring == {"expiring", "avatar_expiring"}

\* cache.set of a gate miss.
GateSet(p) ==
    /\ reqs[p].pc = "filling"
    /\ cache' = cache_put(cache, reqs[p].email, reqs[p].user, now)
    /\ reqs' = [reqs EXCEPT ![p] = [@ EXCEPT !.pc = "expiring"]]
    /\ UNCHANGED <<users, now, ticks, issued, resp, spent, contacts>>

\* cache.expire of a gate miss.
GateExpire(p) ==
    /\ reqs[p].pc = "expiring"
    /\ cache' = cache_expire(cache, reqs[p].email, CacheTTL, now)
    /\ reqs' = [reqs EXCEPT ![p] = Authorized(@, reqs[p].user)]
    /\ UNCHANGED <<users, now, ticks, issued, resp, spent, contacts>>

\* cache.set of the avatar handler.
AvatarSet(p) ==
    /\ reqs[p].pc = "stored"
    /\ cache' = cache_put(cache, reqs[p].user.email, reqs[p].user, now)
    /\ reqs' = [reqs EXCEPT ![p] = [@ EXCEPT !.pc = "avatar_expiring"]]
    /\ UNCHANGED <<users, now, ticks, issued, resp, spent, contacts>>

\* cache.expire of the avatar handler.
AvatarExpire(p) ==
    /\ reqs[p].pc = "avatar_expiring"
    /\ cache' = cache_expire(cache, reqs[p].user.email, AvatarCacheTTL, now)
    /\ reqs' = [reqs EXCEPT ![p] = [@ EXCEPT !.pc = "done", !.status = 200]]
    /\ UNCHANGED <<users, now, ticks, issued, resp, spent, contacts>>

\* The request ends after its cache.set and before its cache.expire.
Interrupt(p) ==
    /\ reqs[p].pc \in Expiring
    /\ reqs' = [reqs EXCEPT ![p] =
                  [@ EXCEPT !.pc = "done",
                            !.status = ServerError("ConnectionError").status]]
    /\ UNCHANGED <<users, cache, now, ticks, issued, resp, spent, contacts>>

\* The two cache calls of a write follow each other without a suspension
\* point: the clock does not move between them.
Elapse(d) ==
    /\ \A p \in Procs : reqs[p].pc \notin Expiring
    /\ Tick(d)

NextCacheSteps ==
    \/ \E p \in Procs : GateStart(p)
    \/ \E p \in Procs : GateRead(p)
    \/ \E p \in Procs : GateSet(p)
    \/ \E p \in Procs : GateExpire(p)
    \/ \E p \in Procs, url \in UploadedUrls : AvatarStore(p, url)
    \/ \E p \in Procs : AvatarSet(p)
    \/ \E p \in Procs : AvatarExpire(p)
    \/ \E p \in Procs : Interrupt(p)
    \/ \E d \in Jumps : Elapse(d)

SpecCacheSteps == InitAvatarRace /\ [][NextCacheSteps]_vars

---------------------------------------------------------------------------
(* The contacts endpoints, used by two users who have signed up, confirmed *)
(* and logged in.                                                          *)

MaxContacts == 2

OtherEmail == "b@x.com"

ContactIds == 1..MaxContacts

ContactBodies ==
    [first_name : {"ann"}, last_name : {"lee"}, email : {"ann@x.com"},
     phone_number : {"0979898998"}, birthday : {"12.12.1984"},
     additional_data : {"met at work"}]

ContactUpdateBodies ==
    [first_name : {"zed"}, last_name : {"doe"}, email : {"zed@x.com"},
     phone_number : {"0979898910"}, birthday : {"12.12.1994"},
     additional_data : {"moved"}, completed : {TRUE}]

Limits == {10}

Offsets == {0, 1}

\* The second user, after the first.
OtherSignedUp ==
    signup(LoggedIn.rows,
           [username |-> "bob", email |-> OtherEmail, password |-> Pw],
           "s1", GravatarUrl, 0, 0)

OtherConfirmed ==
    confirmed_email(OtherSignedUp.rows, send_email(OtherEmail, 0), 0)

OtherLoggedIn == login(OtherConfirmed.rows, OtherEmail, Pw, 0)

\* What a request can carry: a token a client holds, a forged one, or none.
Carried == Presentable \cup {None}

InitContacts ==
    /\ users = OtherLoggedIn.rows
    /\ cache = [e \in Emails |-> None]
    /\ now = 0
    /\ ticks = 0
    /\ issued = SignedUp.out \cup LoggedIn.out \cup OtherSignedUp.out
                   \cup OtherLoggedIn.out
    /\ resp = OtherLoggedIn.resp
    /\ spent = [once |-> {}, more |-> {}]
    /\ reqs = <<>>
    /\ contacts = NoContacts

ContactsStep(r) ==
    /\ contacts' = r.contacts
    /\ cache' = r.cache
    /\ resp' = r.resp
    /\ UNCHANGED <<users, now, ticks, issued, spent, reqs>>

ReadContacts(token, limit, offset) ==
    ContactsStep(read_contacts(users, contacts, cache, token, limit, offset,
                               now))

ReadContact(token, contact_id) ==
    ContactsStep(read_contact(users, contacts, cache, token, contact_id, now))

CreateContact(token, body) ==
    /\ contacts.last_id < MaxContacts
    /\ ContactsStep(create_contact(users, contacts, cache, token, body, now))

UpdateContact(token, contact_id, body) ==
    ContactsStep(update_contact(users, contacts, cache, token, contact_id,
                                body, now))

DeleteContact(token, contact_id) ==
    ContactsStep(delete_contact(users, contacts, cache, token, contact_id,
                                now))

NextContacts ==
    \/ \E d \in Jumps : Tick(d)
    \/ \E tok \in Carried, l \in Limits, o \in Offsets :
          ReadContacts(tok, l, o)
    \/ \E tok \in Carried, id \in ContactIds : ReadContact(tok, id)
    \/ \E tok \in Carried, b \in ContactBodies : CreateContact(tok, b)
    \/ \E tok \in Carried, id \in ContactIds, b \in ContactUpdateBodies :
          UpdateContact(tok, id, b)
    \/ \E tok \in Carried, id \in ContactIds : DeleteContact(tok, id)
    \/ \E tok \in Carried : ReadMe(tok)

SpecContacts == InitContacts /\ [][NextContacts]_vars

---------------------------------------------------------------------------
(* The single-contact endpoints on their own: the two users, each with the *)
(* access token of its login, and a caller without a token.                 *)

Held == {LoggedIn.resp.access_token, OtherLoggedIn.resp.access_token, None}

NextContactsRepo ==
    \/ \E tok \in Held, id \in ContactIds : ReadContact(tok, id)
    \/ \E tok \in Held, b \in ContactBodies : CreateContact(tok, b)
    \/ \E tok \in Held, id \in ContactIds, b \in ContactUpdateBodies :
          UpdateContact(tok, id, b)
    \/ \E tok \in Held, id \in ContactIds : DeleteContact(tok, id)

SpecContactsRepo == InitContacts /\ [][NextContactsRepo]_vars

---------------------------------------------------------------------------
(* Token creation on its own: one call of a create function per behaviour, *)
(* for every kind of token, with and without a time to live, at several    *)
(* clock values.  The function reads the clock once for exp and once more  *)
(* for iat; the second read can fall in the next second.                    *)

TokenKinds == {"access_token", "refresh_token", "email_token"}

Deltas == {NoDelta, <<0>>, <<1>>, <<AccessTTL>>}

ClockValues == {0, 1, 59, RefreshTTL}

Skews == {0, 1}

TokenCalls ==
    {[pc |-> "start", kind |-> k, expires_delta |-> x, skew |-> s] :
        k \in TokenKinds \ {"email_token"}, x \in Deltas, s \in Skews}
    \cup {[pc |-> "start", kind |-> "email_token", expires_delta |-> NoDelta,
            skew |-> s] : s \in Skews}

create_token(call, t) ==
    IF call.kind = "access_token"
    THEN create_access_token([sub |-> "a@x.com"], call.expires_delta,
                             t, t + call.skew)
    ELSE IF call.kind = "refresh_token"
    THEN create_refresh_token([sub |-> "a@x.com"], call.expires_delta,
                              t, t + call.skew)
    ELSE create_email_token([sub |-> "a@x.com"], t, t + call.skew)

InitCodec ==
    /\ users = {}
    /\ cache = [e \in Emails |-> None]
    /\ now \in ClockValues
    /\ ticks = 0
    /\ issued = {}
    /\ resp = Response("init", 0, "", "", None, None, None, None)
    /\ spent = [once |-> {}, more |-> {}]
    /\ reqs \in TokenCalls
    /\ contacts = NoContacts

CreateToken ==
    /\ reqs.pc = "start"
    /\ issued' = issued \cup {create_token(reqs, now)}
    /\ reqs' = [reqs EXCEPT !.pc = "done"]
    /\ UNCHANGED <<users, cache, now, ticks, resp, spent, contacts>>

NextCodec == CreateToken

SpecCodec == InitCodec /\ [][NextCodec]_vars

---------------------------------------------------------------------------
(* Upcoming birthdays.  No route calls get_upcoming_birthdays; it is called *)
(* as a repository function, for a user and the local date of the call.    *)
(* A birthday is held here as the database extracts from it: month and day. *)

DaysInYear == 365

DaysIn(month) ==
    IF month = 2 THEN 28
    ELSE IF month \in {4, 6, 9, 11} THEN 30
    ELSE 31

RECURSIVE DaysBefore(_)
DaysBefore(month) ==
    IF month = 1 THEN 0 ELSE DaysBefore(month - 1) + DaysIn(month - 1)

DayOfYear(date) == DaysBefore(date.month) + date.day

Date(month, day) == [month |-> month, day |-> day]

\* today + timedelta(days=n), within a year of 365 days.
AddDays(date, n) ==
    LET k == ((DayOfYear(date) + n - 1) % DaysInYear) + 1
        m == CHOOSE x \in 1..12 :
                DaysBefore(x) < k /\ k <= DaysBefore(x) + DaysIn(x)
    IN Date(m, k - DaysBefore(m))

\* extract("month", Contact.birthday) == today.month
\*    & extract("day", Contact.birthday) >= today.day
this_month_clause(row, today) ==
    row.birthday.month = today.month /\ row.birthday.day >= today.day

\* extract("month", Contact.birthday) == next_week.month
\*    & extract("day", Contact.birthday) < today.day
next_month_clause(row, today, next_week) ==
    row.birthday.month = next_week.month /\ row.birthday.day < today.day

\* The statement is select(...).filter_by(user=user).where(first clause)
\* | (second clause): the | is applied to the Select itself, not inside
\* where().  A Select takes no | operator, so building the statement raises
\* and nothing is executed or returned.
get_upcoming_birthdays(table, user, today) ==
    LET next_week == AddDays(today, 7)
        selected == {r \in table.rows :
                        r.user_id = user.id /\ this_month_clause(r, today)}
        alternative == {r \in table.rows :
                           next_month_clause(r, today, next_week)}
    IN ServerError("TypeError")

Todays == {Date(1, 1), Date(1, 28), Date(2, 25), Date(12, 28)}

BirthdayDates == {Date(1, 1), Date(1, 3), Date(1, 31), Date(2, 2)}

BirthdayBodies ==
    [first_name : {"ann"}, last_name : {"lee"}, email : {"ann@x.com"},
     phone_number : {"0979898998"}, birthday : BirthdayDates,
     additional_data : {"met at work"}]

InitBirthdays ==
    /\ users = OtherLoggedIn.rows
    /\ cache = [e \in Emails |-> None]
    /\ now = 0
    /\ ticks = 0
    /\ issued = SignedUp.out \cup LoggedIn.out \cup OtherSignedUp.out
                   \cup OtherLoggedIn.out
    /\ resp = OtherLoggedIn.resp
    /\ spent = [once |-> {}, more |-> {}]
    /\ reqs \in {[today |-> d] : d \in Todays}
    /\ contacts = NoContacts

UpcomingBirthdays(user) ==
    LET r == get_upcoming_birthdays(contacts, user, reqs.today)
    IN /\ resp' = Response("birthdays", r.status, r.detail, user.email, None,
                            None, None, None)
       /\ UNCHANGED <<users, cache, now, ticks, issued, spent, reqs,
                      contacts>>

NextBirthdays ==
    \/ \E tok \in Held \ {None}, b \in BirthdayBodies : CreateContact(tok, b)
    \/ \E u \in users : UpcomingBirthdays(u)

SpecBirthdays == InitBirthdays /\ [][NextBirthdays]_vars

---------------------------------------------------------------------------
(* Signup and Login with passwords of every length.  The plaintext given   *)
(* at each successful Signup is kept as history.                           *)

Filler == [i \in 1..BcryptMaxBytes |-> "a"]

LongPasswords == {Filler, Filler \o <<"b">>, Filler \o <<"c">>}

AllPasswords == Passwords \cup LongPasswords

SignupRecorded(username, email, password, salt, avatar) ==
    LET r == signup(users, [username |-> username, email |-> email,
                            password |-> password], salt, avatar, now, now)
    IN /\ users' = r.rows
       /\ issued' = issued \cup r.out
       /\ resp' = r.resp
       /\ reqs' = IF r.resp.status = 201
                  THEN Append(reqs, [email |-> email, password |-> password])
                  ELSE reqs
       /\ UNCHANGED <<cache, now, ticks, spent, contacts>>

NextHasher ==
    \/ \E d \in Jumps : Tick(d)
    \/ \E u \in Usernames, e \in SignupEmails, p \in AllPasswords,
          s \in Salts, a \in {GravatarUrl} : SignupRecorded(u, e, p, s, a)
    \/ \E tok \in Presentable : ConfirmEmail(tok)
    \/ \E e \in Emails, p \in AllPasswords : Login(e, p)

SpecHasher == Init /\ [][NextHasher]_vars

---------------------------------------------------------------------------
(* Vocabulary of the properties                                            *)

HasScope(tok, scope) ==
    "scope" \in DOMAIN tok.claims /\ tok.claims.scope = scope

\* Signed with the service secret and not expired at time t.
ValidAt(tok, t) == tok.key = SECRET_KEY /\ tok.claims.exp >= t

Stored(rows, email) == get_user_by_email(rows, email).refresh_token

LoginSucceeded == resp.op = "login" /\ resp.status = 200

\* Delays between two requests, within the life of a refresh token.
Delays == {0, 1, AccessTTL}

---------------------------------------------------------------------------
\* C1: after a successful Login, one Refresh with the returned refresh token
\* succeeds and returns a pair different from the original pair, and a second
\* Refresh with the original refresh token fails with 401, for every delay
\* between the Login and the first Refresh, the same clock second included.
C1_RefreshAfterLoginRotates ==
    LoginSucceeded =>
        \A d \in Delays :
            LET first == refresh_token(users, resp.refresh_token, now + d)
                second == refresh_token(first.rows, resp.refresh_token, now + d)
            IN /\ first.resp.status = 200
               /\ <<first.resp.access_token, first.resp.refresh_token>>
                    # <<resp.access_token, resp.refresh_token>>
               /\ second.resp.status = 401

---------------------------------------------------------------------------
\* C2: of two Refresh requests that present the same stored refresh token and
\* are handled concurrently, at most one succeeds in every interleaving; the
\* other finds the stored token changed and fails with 401.
Finished == \A p \in Procs : reqs[p].pc = "done"

C2_OneRacingRefreshWins ==
    Finished =>
        \E p \in Procs :
            /\ reqs[p].status = 401
            /\ \A q \in Procs \ {p} : reqs[q].status \in {200, 401}

---------------------------------------------------------------------------
(* Every table a single request can leave behind in the current state      *)

SignupBodies ==
    [username : Usernames, email : Emails, password : Passwords]

SignupResults ==
    {signup(users, b, s, a, now, now) :
        b \in SignupBodies, s \in Salts, a \in {None, GravatarUrl}}

LoginResults == {login(users, e, p, now) : e \in Emails, p \in Passwords}

RefreshResults == {refresh_token(users, tok, now) : tok \in Presentable}

ConfirmResults == {confirmed_email(users, tok, now) : tok \in Presentable}

ReadMeResults == {read_me(users, cache, tok, now) : tok \in Presentable}

AvatarResults ==
    {update_user_avatar(users, cache, tok, url, now) :
        tok \in Presentable, url \in UploadedUrls}

RowsOf(results) == {r.rows : r \in results}

\* The row of rows2 that continues row u (same primary key).
Same(rows2, u) == CHOOSE v \in rows2 : v.id = u.id

Kept(rows2) == \A u \in users : \E v \in rows2 : v.id = u.id

---------------------------------------------------------------------------
\* C3: a Refresh with a validly signed, unexpired, refresh-scoped token that
\* differs from the subject's stored refresh token sets the stored token to
\* null, fails with 401 and issues nothing; while the stored token is null
\* every Refresh for that user fails, and only a successful Login ends that.
C3_ReuseClearsStoredToken ==
    /\ \A tok \in Presentable :
         (ValidAt(tok, now) /\ HasScope(tok, "refresh_token")) =>
            LET email == tok.claims.sub
                user == get_user_by_email(users, email)
                r == refresh_token(users, tok, now)
            IN /\ user \in users
               /\ user.refresh_token # tok =>
                    /\ r.resp.status = 401
                    /\ r.out = {}
                    /\ r.resp.access_token = None
                    /\ r.resp.refresh_token = None
                    /\ r.rows = {IF u.id = user.id
                                 THEN [u EXCEPT !.refresh_token = None]
                                 ELSE u : u \in users}
    /\ \A u \in users :
         u.refresh_token = None =>
            /\ \A tok \in Presentable :
                 tok.claims.sub = u.email =>
                    LET r == refresh_token(users, tok, now)
                    IN r.resp.status # 200 /\ r.out = {}
            /\ \A rows2 \in RowsOf(RefreshResults \cup ConfirmResults
                                   \cup ReadMeResults \cup AvatarResults
                                   \cup SignupResults) :
                 Kept(rows2) /\ Same(rows2, u).refresh_token = None
            /\ \A r \in LoginResults :
                 Kept(r.rows) /\
                 (Same(r.rows, u).refresh_token # None =>
                    r.resp.status = 200 /\ r.resp.email = u.email)

C3_Witness ==
    /\ resp.op = "refresh"
    /\ resp.status = 401
    /\ resp.detail = "Invalid refresh token"
    /\ ValidAt(resp.token, now)
    /\ HasScope(resp.token, "refresh_token")
    /\ Stored(users, resp.email) = None
    /\ \E tok \in issued :
         HasScope(tok, "refresh_token") /\ tok # resp.token /\ ValidAt(tok, now)

---------------------------------------------------------------------------
\* C4: a Refresh succeeds only if the presented token is literally the value
\* stored for its subject at the time of the call, and no refresh token value
\* leads to a successful Refresh more than once in the whole history.
C4_RefreshTokenSingleUse ==
    /\ \A tok \in Presentable :
         refresh_token(users, tok, now).resp.status = 200 =>
            /\ get_user_by_email(users, tok.claims.sub) \in users
            /\ Stored(users, tok.claims.sub) = tok
    /\ spent.more = {}

---------------------------------------------------------------------------
\* C5: an unexpired, correctly signed access token is rejected by the refresh
\* decode and by Refresh, and an unexpired, correctly signed refresh token is
\* rejected by the auth gate; neither changes any state nor yields a user.
C5_ScopesAreNotInterchangeable ==
    \A tok \in issued :
        ValidAt(tok, now) =>
            /\ HasScope(tok, "access_token") =>
                 LET d == decode_refresh_token(tok, now)
                     r == refresh_token(users, tok, now)
                 IN /\ ~d.ok /\ d.status = 401
                    /\ r.resp.status = 401
                    /\ r.rows = users /\ r.out = {}
                    /\ r.resp.access_token = None
                    /\ r.resp.refresh_token = None
            /\ HasScope(tok, "refresh_token") =>
                 LET g == get_current_user(tok, users, cache, now)
                     m == read_me(users, cache, tok, now)
                 IN /\ ~g.res.ok /\ g.res.status = 401
                    /\ g.cache = cache
                    /\ m.resp.status = 401 /\ m.resp.user = None
                    /\ m.rows = users /\ m.cache = cache
                    /\ \A url \in UploadedUrls :
                         LET a == update_user_avatar(users, cache, tok, url, now)
                         IN /\ a.resp.status = 401 /\ a.resp.user = None
                            /\ a.rows = users /\ a.cache = cache

C5_Witness ==
    /\ resp.op = "refresh"
    /\ resp.status = 401
    /\ resp.detail = "Invalid scope for token"
    /\ resp.token \in issued
    /\ ValidAt(resp.token, now)
    /\ HasScope(resp.token, "access_token")
    /\ \E tok \in issued : ValidAt(tok, now) /\ HasScope(tok, "refresh_token")

---------------------------------------------------------------------------
\* C6: for every token presented to the auth gate or to Refresh the decode
\* either returns the subject (signature valid, unexpired, expected scope) or
\* fails with 401; an email-verification token is rejected with 401 by both.
C6_DecodeReturnsSubjectOr401 ==
    \A tok \in Presentable :
        LET d == decode_refresh_token(tok, now)
            g == get_current_user(tok, users, cache, now).res
        IN /\ d.ok \/ d.status = 401
           /\ d.ok <=> (ValidAt(tok, now) /\ HasScope(tok, "refresh_token"))
           /\ g.ok \/ g.status = 401

---------------------------------------------------------------------------
\* C7: a token presented after its expiry is rejected by every decode (auth
\* gate, Refresh, ConfirmEmail) although its signature is valid; a Refresh
\* with an expired token that is still the stored one fails, issues nothing.
C7_ExpiredTokensAreRejected ==
    \A tok \in issued :
        (tok.key = SECRET_KEY /\ tok.claims.exp < now) =>
            LET r == refresh_token(users, tok, now)
                c == confirmed_email(users, tok, now)
                m == read_me(users, cache, tok, now)
            IN /\ ~decode_refresh_token(tok, now).ok
               /\ ~get_current_user(tok, users, cache, now).res.ok
               /\ ~get_email_from_token(tok, now).ok
               /\ r.resp.status = 401 /\ r.out = {} /\ r.rows = users
               /\ r.resp.access_token = None /\ r.resp.refresh_token = None
               /\ c.resp.status = 422 /\ c.rows = users
               /\ m.resp.status = 401 /\ m.resp.user = None

C7_Witness ==
    /\ resp.op = "refresh"
    /\ resp.status = 401
    /\ resp.token.key = SECRET_KEY
    /\ resp.token.claims.exp < now
    /\ HasScope(resp.token, "refresh_token")
    /\ get_user_by_email(users, resp.token.claims.sub) \in users
    /\ Stored(users, resp.token.claims.sub) = resp.token

---------------------------------------------------------------------------
\* C8: after every successful Login the stored refresh token is the one that
\* Login returned, and no refresh token handed out earlier for the same user
\* is accepted by Refresh any more.
C8_LoginInvalidatesEarlierTokens ==
    [][(resp'.op = "login" /\ resp'.status = 200) =>
          /\ Stored(users', resp'.email) = resp'.refresh_token
          /\ \A tok \in issued :
               (HasScope(tok, "refresh_token") /\ tok.claims.sub = resp'.email)
                  => \A d \in Delays :
                        refresh_token(users', tok, now' + d).resp.status # 200
      ]_vars

---------------------------------------------------------------------------
\* C9: Login answers 401 "Invalid email" for an unknown address, otherwise
\* 401 "Email not confirmed" for an unconfirmed user, otherwise 401 "Invalid
\* password" when the password does not verify; each failure issues no token
\* and leaves the table unchanged.
LoginFails(r, detail) ==
    /\ r.resp.status = 401
    /\ r.resp.detail = detail
    /\ r.resp.access_token = None
    /\ r.resp.refresh_token = None
    /\ r.out = {}
    /\ r.rows = users

C9_LoginFailuresInOrder ==
    \A e \in Emails, p \in Passwords :
        LET user == get_user_by_email(users, e)
            r == login(users, e, p, now)
        IN IF user = None THEN LoginFails(r, "Invalid email")
           ELSE IF ~user.confirmed THEN LoginFails(r, "Email not confirmed")
           ELSE IF ~verify_password(p, user.password)
                THEN LoginFails(r, "Invalid password")
                ELSE r.resp.status = 200

C9_Witness ==
    /\ resp.op = "login"
    /\ resp.status = 401
    /\ resp.detail = "Invalid password"
    /\ get_user_by_email(users, resp.email) \in users
    /\ Stored(users, resp.email) # None

---------------------------------------------------------------------------
\* C10: a user created by Signup is unconfirmed and holds no refresh token;
\* no Login succeeds for an unconfirmed user; once ConfirmEmail has succeeded
\* Login with the signup password returns an access and a refresh token; and
\* only ConfirmEmail changes confirmed, from false to true, never back.
PairReturned(r) ==
    /\ r.resp.status = 200
    /\ HasScope(r.resp.access_token, "access_token")
    /\ HasScope(r.resp.refresh_token, "refresh_token")

C10_ConfirmationBeforeLogin ==
    /\ \A b \in SignupBodies, s \in Salts, a \in {None, GravatarUrl} :
         LET r == signup(users, b, s, a, now, now)
             new == get_user_by_email(r.rows, b.email)
         IN get_user_by_email(users, b.email) = None =>
               /\ new \in r.rows
               /\ ~new.confirmed
               /\ new.refresh_token = None
               /\ verify_password(b.password, new.password)
               /\ ~PairReturned(login(r.rows, b.email, b.password, now))
    /\ \A u \in users, p \in Passwords :
         ~u.confirmed => login(users, u.email, p, now).resp.status = 401
    /\ \A tok \in Presentable :
         LET c == confirmed_email(users, tok, now)
             u == get_user_by_email(c.rows, c.resp.email)
         IN c.resp.status = 200 =>
               /\ u \in c.rows
               /\ u.confirmed
               /\ \A p \in Passwords :
                    verify_password(p, u.password) =>
                       PairReturned(login(c.rows, u.email, p, now))
    /\ \A rows2 \in RowsOf(SignupResults \cup LoginResults \cup RefreshResults
                           \cup ReadMeResults \cup AvatarResults) :
         \A u \in users :
            /\ Kept(rows2)
            /\ Same(rows2, u).confirmed = u.confirmed
            /\ Same(rows2, u).password = u.password
    /\ \A rows2 \in RowsOf(ConfirmResults) :
         \A u \in users :
            /\ Kept(rows2)
            /\ u.confirmed => Same(rows2, u).confirmed
            /\ Same(rows2, u).password = u.password

C10_Witness ==
    /\ LoginSucceeded
    /\ PairReturned([resp |-> resp])
    /\ \E u \in users :
         /\ u.email = resp.email
         /\ u.confirmed
         /\ u.refresh_token = resp.refresh_token
    /\ \E tok \in issued : "scope" \notin DOMAIN tok.claims

---------------------------------------------------------------------------
\* C11: the table holds at most one user per email; a Signup whose email
\* already belongs to a user answers 409, creates no row and changes no row,
\* also when two Signups for the same new email are handled concurrently and
\* both pass the existence check before either inserts.
OnePerEmail(rows) ==
    \A e \in Emails : Cardinality({u \in rows : u.email = e}) <= 1

C11_OneUserPerEmail ==
    /\ OnePerEmail(users)
    /\ \A b \in RaceBodies, s \in Salts, a \in {None, GravatarUrl} :
         get_user_by_email(users, b.email) # None =>
            LET r == signup(users, b, s, a, now, now)
            IN r.resp.status = 409 /\ r.rows = users /\ r.out = {}
    /\ \A p \in Procs :
         reqs[p].pc = "done" =>
            \/ reqs[p].status = 201
            \/ reqs[p].status = 409

---------------------------------------------------------------------------
\* C12: given a valid access token whose subject has a cache entry, the gate
\* returns the cached user without reading the table; given one whose subject
\* has no entry, it reads the user from the table, writes that snapshot to
\* the cache under the subject's email and returns it; if the table has no
\* such user it rejects with 401 and writes nothing to the cache.
AccessTokensFor(t) ==
    {create_access_token([sub |-> e], NoDelta, t, t) : e \in Emails}

C12_GateResolvesThroughCache ==
    \A tok \in issued \cup AccessTokensFor(now) :
        (ValidAt(tok, now) /\ HasScope(tok, "access_token")) =>
            LET email == tok.claims.sub
                row == get_user_by_email(users, email)
                g == get_current_user(tok, users, cache, now)
            IN IF cache[email] # None
               THEN /\ g.res.ok
                    /\ g.res.user = cache[email].user
                    /\ g.cache = cache
                    /\ get_current_user(tok, {}, cache, now) = g
               ELSE IF row # None
               THEN /\ g.res.ok
                    /\ g.res.user = row
                    /\ g.cache[email] # None
                    /\ g.cache[email].user = row
                    /\ \A k \in Emails \ {email} : g.cache[k] = cache[k]
               ELSE /\ ~g.res.ok
                    /\ g.res.status = 401
                    /\ g.cache = cache

\* A hit that returned a snapshot the table no longer holds, after a miss
\* had stored it.
C12_Witness ==
    /\ resp.op = "me"
    /\ resp.status = 200
    /\ resp.detail = "hit"
    /\ cache[resp.email] # None
    /\ resp.user = cache[resp.email].user
    /\ resp.user # get_user_by_email(users, resp.email)

---------------------------------------------------------------------------
\* C13: while the cache store is unreachable the gate, given a valid access
\* token of an existing user, still resolves the user from the table and
\* authorizes the request.
C13_CacheFailsOpen ==
    cache = CacheDown =>
        \A tok \in issued :
            (ValidAt(tok, now) /\ HasScope(tok, "access_token")
               /\ get_user_by_email(users, tok.claims.sub) # None) =>
                LET g == get_current_user(tok, users, cache, now)
                    m == read_me(users, cache, tok, now)
                IN /\ g.res.ok
                   /\ g.res.user = get_user_by_email(users, tok.claims.sub)
                   /\ m.resp.status = 200

---------------------------------------------------------------------------
\* C14: once an avatar update for a user has completed, every gate call for
\* that user that starts afterwards yields a user whose avatar is the updated
\* one, in every interleaving of the update with concurrent cache-miss
\* repopulations (table read, then cache write) for the same user.
C14_AvatarUpdateKeepsCacheFresh ==
    \A p \in Procs :
        (reqs[p].kind = "avatar" /\ reqs[p].pc = "done"
           /\ reqs[p].status = 200) =>
            \A tok \in issued :
                (ValidAt(tok, now) /\ HasScope(tok, "access_token")
                   /\ tok.claims.sub = reqs[p].email) =>
                    LET g == get_current_user(tok, users, cache, now)
                    IN g.res.ok /\ g.res.user.avatar = reqs[p].user.avatar

---------------------------------------------------------------------------
\* C15: listing contacts (GET /contacts/, and the repository function behind
\* it) for an authenticated user returns only contacts owned by that user,
\* and so the empty list for a user who has created none, whatever contacts
\* other users have created.
OwnedBy(user) == {r \in contacts.rows : r.user_id = user.id}

C15_ListReturnsOwnContacts ==
    \A tok \in issued, l \in Limits, o \in Offsets :
        LET g == get_current_user(tok, users, cache, now)
            r == read_contacts(users, contacts, cache, tok, l, o, now)
        IN g.res.ok =>
              /\ r.resp.status = 200
              /\ r.data \subseteq OwnedBy(g.res.user)
              /\ repo_read_contacts(contacts, l, o)
                    \subseteq OwnedBy(g.res.user)

---------------------------------------------------------------------------
\* C16: every contacts endpoint (list, read, create, update, delete) and
\* every user endpoint (me, avatar), called with an absent or invalid access
\* token, answers 401, changes neither the contacts nor the users table nor
\* the cache, and returns no contact and no user.
IsValidAccess(tok) ==
    /\ tok # None
    /\ ValidAt(tok, now)
    /\ HasScope(tok, "access_token")

UserEndpoint(r) == Handled(r.rows, contacts, r.cache, r.resp, {})

EndpointResults(tok) ==
    {read_contacts(users, contacts, cache, tok, l, o, now) :
        l \in Limits, o \in Offsets}
    \cup {read_contact(users, contacts, cache, tok, id, now) :
             id \in ContactIds}
    \cup {create_contact(users, contacts, cache, tok, b, now) :
             b \in ContactBodies}
    \cup {update_contact(users, contacts, cache, tok, id, b, now) :
             id \in ContactIds, b \in ContactUpdateBodies}
    \cup {delete_contact(users, contacts, cache, tok, id, now) :
             id \in ContactIds}
    \cup {UserEndpoint(read_me(users, cache, tok, now))}
    \cup {UserEndpoint(update_user_avatar(users, cache, tok, url, now)) :
             url \in UploadedUrls}

C16_EndpointsBehindTheGate ==
    \A tok \in Carried :
        ~IsValidAccess(tok) =>
            \A r \in EndpointResults(tok) :
                /\ r.resp.status = 401
                /\ r.rows = users
                /\ r.contacts = contacts
                /\ r.cache = cache
                /\ r.data = {}
                /\ r.resp.user = None

---------------------------------------------------------------------------
\* C17: the gate never modifies the users table, whether it authorizes or
\* rejects; the only thing it may change is the cache entry under the email
\* of the token's subject, and only on a miss that the table resolves.
C17_GateOnlyFillsOwnCacheEntry ==
    \A tok \in Carried \cup AccessTokensFor(now) :
        LET g == get_current_user(tok, users, cache, now)
            m == read_me(users, cache, tok, now)
        IN /\ m.rows = users
           /\ m.cache = g.cache
           /\ ~g.res.ok => g.cache = cache
           /\ g.cache # cache =>
                 /\ IsValidAccess(tok)
                 /\ cache[tok.claims.sub] = None
                 /\ get_user_by_email(users, tok.claims.sub) \in users
                 /\ \A k \in Emails \ {tok.claims.sub} : g.cache[k] = cache[k]
           /\ (g.res.ok /\ g.res.hit) => g.cache = cache

\* A miss that the table resolved: the entry of the subject is filled, with
\* the row as the table holds it, and no other entry exists.
C17_Witness ==
    /\ resp.op = "me"
    /\ resp.status = 200
    /\ resp.detail = "miss"
    /\ cache[resp.email] # None
    /\ cache[resp.email].user = get_user_by_email(users, resp.email)
    /\ cache[resp.email].expires = now + CacheTTL
    /\ \A k \in Emails \ {resp.email} : cache[k] = None

---------------------------------------------------------------------------
\* C18: ConfirmEmail with a token whose subject is an already confirmed user
\* answers success and changes nothing, so confirming twice leaves the state
\* of confirming once; for a subject without a user record it answers 400 and
\* changes nothing; it never changes a field other than confirmed.
EmailTokensFor(t) == {create_email_token([sub |-> e], t, t) : e \in Emails}

---------------------------------------------------------------------------
\* C20: an access token issued by Login or Refresh is accepted by the gate
\* in every state up to its expiry, whatever Login, Refresh rotation or
\* clearing of the stored refresh token has happened since.
C20_AccessTokensAreStateless ==
    \A tok \in issued :
        (HasScope(tok, "access_token") /\ ValidAt(tok, now)) =>
            LET g == get_current_user(tok, users, cache, now)
            IN /\ g.res.ok
               /\ g.res.user.email = tok.claims.sub
               /\ read_me(users, cache, tok, now).resp.status = 200

\* The gate has accepted an access token, from the table, while the stored
\* refresh token of its user was cleared.
C20_Witness ==
    /\ resp.op = "me"
    /\ resp.status = 200
    /\ resp.detail = "miss"
    /\ resp.token \in issued
    /\ get_user_by_email(users, resp.email) \in users
    /\ Stored(users, resp.email) = None
    /\ \E tok \in issued : HasScope(tok, "refresh_token") /\ ValidAt(tok, now)

---------------------------------------------------------------------------
\* C19: for every password p, verify(p, hash(p)) is true and verify(q,
\* hash(p)) is false for every q different from p; so Login for a confirmed
\* user succeeds exactly when the presented password is the one given at
\* Signup, and the stored password field is the hash, never the plaintext.
C19_VerifyAcceptsOnlyThePassword ==
    \A i \in 1..Len(reqs) :
        LET p == reqs[i].password
            u == get_user_by_email(users, reqs[i].email)
        IN /\ u \in users
           /\ u.password \in {get_password_hash(p, s) : s \in Salts}
           /\ verify_password(p, u.password)
           /\ \A q \in AllPasswords \ {p} : ~verify_password(q, u.password)
           /\ u.confirmed =>
                 \A q \in AllPasswords :
                    login(users, u.email, q, now).resp.status = 200 <=> q = p

---------------------------------------------------------------------------
\* C21: access and refresh tokens have been issued only for confirmed users;
\* each stored refresh_token is null or a refresh-scoped token whose subject
\* is the user's own email; an unconfirmed user has no stored refresh token
\* and is never authorized by the gate.
IsSessionToken(tok) ==
    HasScope(tok, "access_token") \/ HasScope(tok, "refresh_token")

C21_SessionsOnlyForConfirmedUsers ==
    /\ \A tok \in issued :
         IsSessionToken(tok) =>
            /\ get_user_by_email(users, tok.claims.sub) \in users
            /\ get_user_by_email(users, tok.claims.sub).confirmed
    /\ \A u \in users :
         /\ u.refresh_token # None =>
               /\ HasScope(u.refresh_token, "refresh_token")
               /\ u.refresh_token.claims.sub = u.email
               /\ u.refresh_token \in issued
         /\ ~u.confirmed =>
               /\ u.refresh_token = None
               /\ cache[u.email] = None
               /\ \A tok \in Carried :
                     LET g == get_current_user(tok, users, cache, now)
                     IN g.res.ok => g.res.user.email # u.email
               /\ \A r \in LoginResults \cup RefreshResults :
                     r.resp.status = 200 => r.resp.email # u.email
    /\ \A e \in Emails :
         cache[e] # None => cache[e].user.confirmed

\* A Refresh has succeeded for a confirmed user, whose stored token is the one
\* it returned.
C21_Witness ==
    /\ resp.op = "refresh"
    /\ resp.status = 200
    /\ \E u \in users :
         /\ u.email = resp.email
         /\ u.confirmed
         /\ u.refresh_token = resp.refresh_token
    /\ resp.access_token \in issued

---------------------------------------------------------------------------
\* C22: every cache entry is bounded by a time to live: an entry written by
\* the gate expires 30 minutes after the write, one written by the avatar
\* update 5 minutes after; the gate never returns a snapshot written more than
\* 30 minutes earlier; and a request that ends between its cache set and its
\* cache expire leaves no entry without an expiry.
BeingWritten(e) ==
    \E p \in Procs : reqs[p].pc \in Expiring /\ reqs[p].user.email = e

C22_CacheEntriesExpire ==
    /\ \A e \in Emails :
         (cache[e] # None /\ ~BeingWritten(e)) =>
            /\ cache[e].expires # NoExpiry
            /\ cache[e].expires \in {cache[e].written + CacheTTL,
                                      cache[e].written + AvatarCacheTTL}
    /\ \A tok \in issued \cup AccessTokensFor(now) :
         LET g == get_current_user(tok, users, cache, now)
         IN (g.res.ok /\ cache[tok.claims.sub] # None
               /\ ~BeingWritten(tok.claims.sub)) =>
               now - cache[tok.claims.sub].written <= CacheTTL

---------------------------------------------------------------------------
\* C23: ConfirmEmail checks no scope: every unexpired token signed with the
\* service secret whose subject is the email of an existing unconfirmed user
\* sets that user's confirmed flag to true, whether it was issued as an email
\* token, an access token or a refresh token.
C23_ConfirmEmailIgnoresScope ==
    \A tok \in issued \cup SignedTokens(now) :
        LET u == get_user_by_email(users, tok.claims.sub)
            c == confirmed_email(users, tok, now)
        IN (ValidAt(tok, now) /\ u \in users /\ ~u.confirmed) =>
              /\ c.resp.status = 200
              /\ c.resp.detail = "Email confirmed"
              /\ c.rows = (users \ {u}) \cup {[u EXCEPT !.confirmed = TRUE]}

\* A user has been confirmed with a token that carries the access or the
\* refresh scope.
C23_Witness ==
    /\ resp.op = "confirm"
    /\ resp.detail = "Email confirmed"
    /\ IsSessionToken(resp.token)
    /\ \E u \in users : u.email = resp.token.claims.sub /\ u.confirmed

---------------------------------------------------------------------------
\* C30: request_email completes with a message for every email and never
\* changes stored state: for an unknown email it answers "Check your email
\* for confirmation." and schedules no mail; for a confirmed user it answers
\* "Your email is already confirmed" and schedules none; for an unconfirmed
\* user it schedules exactly one confirmation mail.
C30_RequestEmailAlwaysAnswers ==
    \A e \in Emails :
        LET u == get_user_by_email(users, e)
            r == request_email(users, e, now)
        IN /\ r.rows = users
           /\ r.resp.status = 200
           /\ u = None =>
                 /\ r.resp.detail = "Check your email for confirmation."
                 /\ r.out = {}
           /\ (u \in users /\ u.confirmed) =>
                 /\ r.resp.detail = "Your email is already confirmed"
                 /\ r.out = {}
           /\ (u \in users /\ ~u.confirmed) =>
                 /\ r.resp.detail = "Check your email for confirmation."
                 /\ r.out = {create_email_token([sub |-> e], now, now)}

---------------------------------------------------------------------------
\* C24: read_contact, update_contact and delete_contact called by a user with
\* the id of a contact another user owns return None (the read and the update
\* route answer 404) and leave that contact and every other contact
\* unchanged.
Caller(tok) == get_current_user(tok, users, cache, now).res

OwnedByAnother(id, user) ==
    \E r \in contacts.rows : r.id = id /\ r.user_id # user.id

C24_ForeignContactsAreOutOfReach ==
    \A tok \in Held, id \in ContactIds, b \in ContactUpdateBodies :
        (Caller(tok).ok /\ OwnedByAnother(id, Caller(tok).user)) =>
            LET user == Caller(tok).user
                up == repo_update_contact(contacts, id, b, user)
                del == repo_delete_contact(contacts, id, user)
                rd == read_contact(users, contacts, cache, tok, id, now)
                ru == update_contact(users, contacts, cache, tok, id, b, now)
                rdel == delete_contact(users, contacts, cache, tok, id, now)
            IN /\ repo_read_contact(contacts, id, user) = None
               /\ up.contact = None /\ up.table = contacts
               /\ del.contact = None /\ del.table = contacts
               /\ rd.resp.status = 404 /\ rd.data = {}
               /\ rd.contacts = contacts
               /\ ru.resp.status = 404 /\ ru.data = {}
               /\ ru.contacts = contacts
               /\ rdel.data = {} /\ rdel.contacts = contacts

\* An update has been answered 404 while every id was the id of a contact
\* of the other user.
C24_Witness ==
    /\ resp.op = "update"
    /\ resp.status = 404
    /\ {r.id : r \in contacts.rows} = ContactIds
    /\ \A r \in contacts.rows :
          r.user_id # get_user_by_email(users, resp.email).id

---------------------------------------------------------------------------
\* C25: update_contact on an existing contact of the caller sets first_name,
\* last_name, email, phone_number, birthday and completed to the values of
\* the body, commits and returns the contact, leaving its id, its owner, its
\* additional_data and every other contact unchanged; when the caller has no
\* such contact it returns None and changes nothing.
OtherRowsKept(table, id) ==
    /\ \A r \in contacts.rows : r.id # id => r \in table.rows
    /\ \A r \in table.rows : r.id # id => r \in contacts.rows
    /\ table.last_id = contacts.last_id

C25_UpdateSetsTheBodyFields ==
    \A tok \in Held, id \in ContactIds, b \in ContactUpdateBodies :
        Caller(tok).ok =>
            LET user == Caller(tok).user
                own == repo_read_contact(contacts, id, user)
                up == repo_update_contact(contacts, id, b, user)
                ru == update_contact(users, contacts, cache, tok, id, b, now)
            IN IF own = None
               THEN /\ up.contact = None
                    /\ up.table = contacts
                    /\ ru.resp.status = 404
                    /\ ru.contacts = contacts
               ELSE /\ up.contact.first_name = b.first_name
                    /\ up.contact.last_name = b.last_name
                    /\ up.contact.email = b.email
                    /\ up.contact.phone_number = b.phone_number
                    /\ up.contact.birthday = b.birthday
                    /\ up.contact.completed = b.completed
                    /\ up.contact.id = own.id
                    /\ up.contact.user_id = own.user_id
                    /\ up.contact.additional_data = own.additional_data
                    /\ repo_read_contact(up.table, id, user) = up.contact
                    /\ Cardinality(up.table.rows)
                          = Cardinality(contacts.rows)
                    /\ OtherRowsKept(up.table, id)
                    /\ ru.resp.status = 200
                    /\ ru.data = {up.contact}
                    /\ ru.contacts = up.table

\* An update has succeeded: the caller owns a contact with the values of the
\* update body and the additional_data it was created with, next to a
\* contact that was never updated.
C25_Witness ==
    /\ resp.op = "update"
    /\ resp.status = 200
    /\ \E r \in contacts.rows :
          /\ r.user_id = get_user_by_email(users, resp.email).id
          /\ r.first_name = "zed"
          /\ r.completed
          /\ r.additional_data = "met at work"
    /\ \E r \in contacts.rows : r.first_name = "ann" /\ ~r.completed

---------------------------------------------------------------------------
\* C26: delete_contact on an existing contact of the caller removes exactly
\* that contact and returns it, after which read_contact for that id returns
\* None and every other contact is unchanged; delete_contact for an id the
\* caller has no contact with (a repeated delete too) returns None and
\* changes nothing.
C26_DeleteRemovesExactlyOne ==
    \A tok \in Held, id \in ContactIds :
        Caller(tok).ok =>
            LET user == Caller(tok).user
                own == repo_read_contact(contacts, id, user)
                del == repo_delete_contact(contacts, id, user)
                again == repo_delete_contact(del.table, id, user)
                rdel == delete_contact(users, contacts, cache, tok, id, now)
            IN /\ own = None =>
                     /\ del.contact = None
                     /\ del.table = contacts
               /\ own # None =>
                     /\ del.contact = own
                     /\ del.table.rows = contacts.rows \ {own}
                     /\ Cardinality(del.table.rows)
                           = Cardinality(contacts.rows) - 1
                     /\ OtherRowsKept(del.table, id)
                     /\ repo_read_contact(del.table, id, user) = None
               /\ again.contact = None
               /\ again.table = del.table
               /\ rdel.contacts = del.table
               /\ rdel.resp.status = 204

\* A delete has been answered while a contact the caller created is gone
\* and another contact is still there.
C26_Witness ==
    /\ resp.op = "delete"
    /\ resp.status = 204
    /\ contacts.rows # {}
    /\ Cardinality(contacts.rows) < contacts.last_id
    /\ \A r \in contacts.rows :
          r.user_id # get_user_by_email(users, resp.email).id

---------------------------------------------------------------------------
\* C27: create_contact adds exactly one contact, owned by the caller and
\* carrying first_name, last_name, email, phone_number and birthday of the
\* body, and returns it; read_contact by the same user with the returned id
\* then yields that contact; the contacts that existed before are unchanged.
C27_CreateThenReadRoundTrip ==
    \A tok \in Held, b \in ContactBodies :
        Caller(tok).ok =>
            LET user == Caller(tok).user
                made == repo_create_contact(contacts, b, user)
                rc == create_contact(users, contacts, cache, tok, b, now)
            IN /\ made.contact \notin contacts.rows
               /\ made.contact.id \notin {r.id : r \in contacts.rows}
               /\ made.table.rows = contacts.rows \cup {made.contact}
               /\ Cardinality(made.table.rows)
                     = Cardinality(contacts.rows) + 1
               /\ made.contact.user_id = user.id
               /\ made.contact.first_name = b.first_name
               /\ made.contact.last_name = b.last_name
               /\ made.contact.email = b.email
               /\ made.contact.phone_number = b.phone_number
               /\ made.contact.birthday = b.birthday
               /\ repo_read_contact(made.table, made.contact.id, user)
                     = made.contact
               /\ rc.resp.status = 201
               /\ rc.data = {made.contact}
               /\ rc.contacts = made.table
               /\ read_contact(users, rc.contacts, rc.cache, tok,
                               made.contact.id, now).data = {made.contact}

\* A create has succeeded: the newest contact is the caller's, next to one
\* of the other user.
C27_Witness ==
    /\ resp.op = "create"
    /\ resp.status = 201
    /\ \E r \in contacts.rows :
          /\ r.id = contacts.last_id
          /\ r.user_id = get_user_by_email(users, resp.email).id
          /\ r.first_name = "ann"
    /\ \E r \in contacts.rows :
          r.user_id # get_user_by_email(users, resp.email).id

---------------------------------------------------------------------------
\* C28: a new login always recovers a session: in every reachable state
\* (stored refresh token null after a detected reuse, or superseded, whatever
\* the cache holds) a confirmed user with the correct password logs in, and
\* the refresh token that Login returns is accepted by the next Refresh.
C28_LoginRecoversTheSession ==
    \A u \in users, p \in Passwords :
        (u.confirmed /\ verify_password(p, u.password)) =>
            LET l == login(users, u.email, p, now) IN
            /\ l.resp.status = 200
            /\ Stored(l.rows, u.email) = l.resp.refresh_token
            /\ \A d \in Delays :
                  refresh_token(l.rows, l.resp.refresh_token, now + d)
                     .resp.status = 200

\* A Refresh has just failed and left the stored token null, for a
\* confirmed user who still holds an unexpired refresh token.
C28_Witness ==
    /\ resp.op = "refresh"
    /\ resp.status = 401
    /\ \E u \in users :
          /\ u.confirmed
          /\ u.refresh_token = None
          /\ \E tok \in issued :
                /\ HasScope(tok, "refresh_token")
                /\ tok.claims.sub = u.email
                /\ ValidAt(tok, now)

---------------------------------------------------------------------------
\* C29: every token issued has exp = iat + ttl: with an explicit ttl of t
\* seconds, for every t >= 0 (t = 0 too), exp = iat + t; with no ttl, exp is
\* iat + 15 minutes for an access token, iat + 7 days for a refresh token and
\* iat + 1 day for an email token.
DefaultTTL(kind) ==
    IF kind = "access_token" THEN AccessTTL
    ELSE IF kind = "refresh_token" THEN RefreshTTL
    ELSE EmailTTL

C29_ExpIsIatPlusTtl ==
    reqs.pc = "done" =>
        \A tok \in issued :
            tok.claims.exp = tok.claims.iat
                + (IF reqs.expires_delta = NoDelta
                   THEN DefaultTTL(reqs.kind)
                   ELSE reqs.expires_delta[1])

---------------------------------------------------------------------------
\* C31: get_upcoming_birthdays(user) returns exactly the contacts of the user
\* whose birthday (month and day) falls within the seven days starting today,
\* for every value of today, a window that crosses a month or a year boundary
\* included; it returns no contact of another user and no contact whose
\* birthday is more than seven days away.
DaysUntil(today, birthday) ==
    (DayOfYear(birthday) - DayOfYear(today)) % DaysInYear

C31_UpcomingBirthdaysOfTheUser ==
    \A u \in users :
        LET r == get_upcoming_birthdays(contacts, u, reqs.today) IN
        /\ r.ok
        /\ \A c \in contacts.rows :
              (c.user_id = u.id /\ DaysUntil(reqs.today, c.birthday) < 7)
                 => c \in r.contacts
        /\ \A c \in r.contacts :
              /\ c \in contacts.rows
              /\ c.user_id = u.id
              /\ DaysUntil(reqs.today, c.birthday) <= 7

====
